---- MODULE Spec2Model ----
(***************************************************************************)
(* Model of provision/servicecommon/actions.go: the service deployment     *)
(* pipeline (update-services, update-image-in-db, remove-old-services),    *)
(* its deploy step and its compensation.                                   *)
(*                                                                         *)
(* Process names are modelled by the integers 1..NumProcs; the order < on  *)
(* them stands for the lexicographic order sort.Strings uses.              *)
(***************************************************************************)
EXTENDS Integers, Sequences, FiniteSets, TLC

\* ---------------------------------------------------------------- bounds
NumProcs == 3
MaxReplicas == 2
MaxRestarts == 1
MaxIncrement == 2

Procs == 1..NumProcs

\* ------------------------------------------------------------ value types
CurImg == "current-image"
NewImg == "new-image"

ProcessState ==
  [Stop : BOOLEAN, Start : BOOLEAN, Restart : BOOLEAN, Sleep : BOOLEAN,
   Increment : (0 - MaxIncrement)..MaxIncrement]

ZeroState ==
  [Stop |-> FALSE, Start |-> FALSE, Restart |-> FALSE, Sleep |-> FALSE, Increment |-> 0]

StartState == [ZeroState EXCEPT !.Start = TRUE]

\* a nil *LabelSet, a result not yet returned
Nil == [nil |-> TRUE]

LabelSet ==
  [replicas : 0..MaxReplicas, stopped : BOOLEAN, asleep : BOOLEAN, restarts : 0..MaxRestarts]

NoService == [exists |-> FALSE]

NoErr == [kind |-> "nil", proc |-> 0, phase |-> "nil"]

Error(kind, p, phase) == [kind |-> kind, proc |-> p, phase |-> phase]

Call(op, p, phase, ok) == [op |-> op, proc |-> p, phase |-> phase, ok |-> ok]

\* ------------------------------------------------------------- sequences
RECURSIVE Insert(_, _)
Insert(s, x) ==
  IF s = <<>> THEN <<x>>
  ELSE IF x < Head(s) THEN <<x>> \o s
  ELSE <<Head(s)>> \o Insert(Tail(s), x)

SortStringsKeepsOrder(s) == s

RECURSIVE SortStrings(_)
SortStrings(s) ==
  IF s = <<>> THEN <<>> ELSE Insert(SortStrings(Tail(s)), Head(s))

\* every order in which a range over a map with key set S may visit the keys
MapOrders(S) ==
  {s \in [1..Cardinality(S) -> S] : \A i, j \in 1..Cardinality(S) : i # j => s[i] # s[j]}

Range(s) == {s[i] : i \in 1..Len(s)}

\* ------------------------------------------------------- the deploy step
\* provision.LabelSet accessors on the labels of a service
AppReplicas(l) == l.replicas
Restarts(l) == l.restarts
IsStopped(l) == l.stopped
IsAsleep(l) == l.asleep

\* provision.ServiceLabels: base labels carrying the replica count only
ServiceLabels(replicas) ==
  [replicas |-> replicas, stopped |-> FALSE, asleep |-> FALSE, restarts |-> 0]

SetStopped(l) == [l EXCEPT !.stopped = TRUE]
SetAsleep(l) == [l EXCEPT !.asleep = TRUE]
SetRestarts(l, n) == [l EXCEPT !.restarts = n]

SeedReplicas(oldLabels) == IF oldLabels # Nil THEN AppReplicas(oldLabels) ELSE 0
SeedRestarts(oldLabels) == IF oldLabels # Nil THEN Restarts(oldLabels) ELSE 0
SeedStopped(oldLabels) == IF oldLabels # Nil THEN IsStopped(oldLabels) ELSE FALSE
SeedAsleep(oldLabels) == IF oldLabels # Nil THEN IsAsleep(oldLabels) ELSE FALSE

ApplyIncrement(replicas, pState) ==
  IF pState.Increment # 0 THEN replicas + pState.Increment ELSE replicas

InvalidScaleTooLate(replicas, pState) == pState.Increment # 0 /\ replicas < 0 - MaxReplicas

InvalidScale(replicas, pState) == pState.Increment # 0 /\ replicas < 0

ApplyStartAlwaysOne(replicas, pState) ==
  IF pState.Start \/ pState.Restart THEN 1 ELSE replicas

ApplyStart(replicas, pState) ==
  IF (pState.Start \/ pState.Restart) /\ replicas = 0 THEN 1 ELSE replicas

WakeNever(flag, pState) == flag

\* lines 120-125: Start or Restart clears the stopped and asleep flags
Wake(flag, pState) == IF pState.Start \/ pState.Restart THEN FALSE ELSE flag

RealReplicasIgnoreStopped(replicas, isStopped, pState) ==
  IF pState.Stop THEN 0 ELSE replicas

RealReplicas(replicas, isStopped, pState) ==
  IF isStopped \/ pState.Stop THEN 0 ELSE replicas

BuildLabelsCountsEveryDeploy(replicas, restartCount, isStopped, isAsleep, pState) ==
  LET l0 == ServiceLabels(replicas)
      l1 == IF isStopped \/ pState.Stop THEN SetStopped(l0) ELSE l0
      l2 == IF isAsleep \/ pState.Sleep THEN SetAsleep(l1) ELSE l1
  IN  SetRestarts(l2, restartCount + 1)

\* the labels handed to DeployService (lines 127-146)
BuildLabels(replicas, restartCount, isStopped, isAsleep, pState) ==
  LET l0 == ServiceLabels(replicas)
      l1 == IF isStopped \/ pState.Stop THEN SetStopped(l0) ELSE l0
      l2 == IF isAsleep \/ pState.Sleep THEN SetAsleep(l1) ELSE l1
  IN  IF pState.Restart THEN SetRestarts(l2, restartCount + 1) ELSE l2

\* what deployService computes from the labels it read and the requested state
Effective(oldLabels, pState) ==
  LET incremented == ApplyIncrement(SeedReplicas(oldLabels), pState)
      replicas == ApplyStart(incremented, pState)
      isStopped == Wake(SeedStopped(oldLabels), pState)
      isAsleep == Wake(SeedAsleep(oldLabels), pState)
  IN  [invalid |-> InvalidScale(incremented, pState),
       labels |-> BuildLabels(replicas, SeedRestarts(oldLabels), isStopped, isAsleep, pState),
       realReplicas |-> RealReplicas(replicas, isStopped, pState)]

\* the backend: ServiceManager.CurrentLabels on the services svcs
CurrentLabels(svcs, p) == IF svcs[p].exists THEN svcs[p].labels ELSE Nil

Service(image, labels, realReplicas) ==
  [exists |-> TRUE, image |-> image, labels |-> labels, realReplicas |-> realReplicas]

Faults == {"none", "CurrentLabels", "ServiceLabels", "DeployService"}

\* one call of deployService on the backend svcs; fault names the call that
\* fails, if it is reached.  Returns the error, the backend calls issued and
\* the backend afterwards.
deployService(svcs, p, image, pState, phase, fault) ==
  LET oldLabels == CurrentLabels(svcs, p)
      eff == Effective(oldLabels, pState)
      readOk == Call("CurrentLabels", p, phase, TRUE)
  IN  IF fault = "CurrentLabels"
        THEN [err |-> Error("CurrentLabels", p, phase),
              calls |-> <<Call("CurrentLabels", p, phase, FALSE)>>, services |-> svcs]
      ELSE IF eff.invalid
        THEN [err |-> Error("InvalidScale", p, phase), calls |-> <<readOk>>, services |-> svcs]
      ELSE IF fault = "ServiceLabels"
        THEN [err |-> Error("ServiceLabels", p, phase), calls |-> <<readOk>>, services |-> svcs]
      ELSE IF fault = "DeployService"
        THEN [err |-> Error("DeployService", p, phase),
              calls |-> <<readOk, Call("DeployService", p, phase, FALSE)>>, services |-> svcs]
      ELSE [err |-> NoErr,
            calls |-> <<readOk, Call("DeployService", p, phase, TRUE)>>,
            services |-> [svcs EXCEPT ![p] = Service(image, eff.labels, eff.realReplicas)]]

\* TRUE when the fault chosen for a deployService call was actually injected
Injected(out, fault) == fault # "none" /\ out.err.kind = fault


\* ------------------------------------------------------------------ state
VARIABLES
  curProcs,           \* currentImageData.Processes (names)
  newProcs,           \* newImageData.Processes (names)
  updateSpec,         \* the caller's updateSpec: nil or a map name -> ProcessState
  args,               \* pipelineArgs: the two specs handed to the pipeline
  services,           \* the backend: name -> service or NoService
  preServices,        \* the backend as it was before the run began
  imageHistory,       \* images appended by AppendAppImageName
  pc,                 \* position of the run
  toDeployProcesses,  \* updateServices.Forward: sorted names
  deployedProcesses,  \* updateServices.Forward: names deployed so far
  err,                \* the error of the failing forward step
  rollbackQueue,      \* rollbackAddedProcesses: names still to visit
  removeQueue,        \* removeOldServices: names still to visit
  result,             \* Nil while running, then what RunServicePipeline returns
  log,                \* backend calls issued, in order
  errLog,             \* errors passed to log.Errorf, in order
  rollbacks,          \* invocations of rollbackAddedProcesses: who called, with what
  compensated,        \* names visited by rollbackAddedProcesses, in order
  request             \* deploy step alone: the ProcessState and image of the call

vars ==
  <<curProcs, newProcs, updateSpec, args, services, preServices, imageHistory, pc,
    toDeployProcesses, deployedProcesses, err, rollbackQueue, removeQueue, result,
    log, errLog, rollbacks, compensated, request>>

inputs == <<curProcs, newProcs, updateSpec, preServices, request>>

\* ----------------------------------------------------------------- inputs
\* labels the processes of the current image have before the run: the
\* application is running, or it was stopped as a whole
RunningLabels == [replicas |-> 1, stopped |-> FALSE, asleep |-> FALSE, restarts |-> 0]
StoppedLabels ==
  [replicas |-> MaxReplicas, stopped |-> TRUE, asleep |-> FALSE, restarts |-> MaxRestarts]
PriorLabels == {RunningLabels, StoppedLabels}

\* states a caller puts in updateSpec
RestartDownState == [ZeroState EXCEPT !.Restart = TRUE, !.Increment = -1]
UpdateStates == {RestartDownState}

RunningService(image, l) ==
  Service(image, l, IF l.stopped THEN 0 ELSE l.replicas)

\* a ProcessSpec value: the nil map, or a map name -> ProcessState
NilSpec == [nil |-> TRUE, map |-> <<>>]
MapSpec(m) == [nil |-> FALSE, map |-> m]

UpdateSpecs(new) ==
  {NilSpec} \cup {MapSpec(m) : m \in UNION {[S -> UpdateStates] : S \in SUBSET new}}

NoArgs == [newImageSpec |-> <<>>, currentImageSpec |-> <<>>]
NoRequest == [state |-> ZeroState, image |-> NewImg, times |-> 0]

Init ==
  /\ curProcs \in SUBSET Procs
  /\ newProcs \in SUBSET Procs
  /\ updateSpec \in UpdateSpecs(newProcs)
  /\ \E l \in PriorLabels :
       services = [p \in Procs |-> IF p \in curProcs THEN RunningService(CurImg, l)
                                                    ELSE NoService]
  /\ preServices = services
  /\ args = NoArgs
  /\ imageHistory = <<CurImg>>
  /\ pc = "RunServicePipeline"
  /\ toDeployProcesses = <<>>
  /\ deployedProcesses = <<>>
  /\ err = NoErr
  /\ rollbackQueue = <<>>
  /\ removeQueue = {}
  /\ result = Nil
  /\ log = <<>>
  /\ errLog = <<>>
  /\ rollbacks = <<>>
  /\ compensated = <<>>
  /\ request = NoRequest

\* ------------------------------------------------------ RunServicePipeline
NoProcessInformationNever(processes) == FALSE

NoProcessInformation(processes) == Cardinality(processes) = 0

NewSpecStateMerged(spec, p) ==
  IF ~spec.nil /\ p \in DOMAIN spec.map THEN spec.map[p] ELSE StartState

\* lines 65-68: the state of process p in the new spec; a map lookup of a
\* missing key gives the zero ProcessState
NewSpecState(spec, p) ==
  IF ~spec.nil
    THEN (IF p \in DOMAIN spec.map THEN spec.map[p] ELSE ZeroState)
    ELSE StartState

StagesRemoveBeforeAppend == <<"updateServices", "removeOldServices", "updateImageInDB">>

StagesRemoveFirst == <<"removeOldServices", "updateServices", "updateImageInDB">>

\* the stages handed to action.NewPipeline, in order
Stages == <<"updateServices", "updateImageInDB", "removeOldServices">>

HasBackwardNone(stage) == FALSE

\* only update-services defines Backward
HasBackward(stage) == stage = "updateServices"

StageIndex(stage) == CHOOSE i \in 1..Len(Stages) : Stages[i] = stage

\* action.Pipeline.Execute: after a stage's Forward succeeded
ExecuteNext(stage) ==
  IF StageIndex(stage) < Len(Stages) THEN Stages[StageIndex(stage) + 1] ELSE "done"

\* action.Pipeline.Execute: the completed stages whose Backward runs when
\* the Forward of stage failed (the failing stage itself is not among them)
ExecuteBackward(stage) ==
  {Stages[i] : i \in {j \in 1..Len(Stages) : j < StageIndex(stage) /\ HasBackward(Stages[j])}}

MetadataErrors ==
  {Error("AppCurrentImageName", 0, "metadata"), Error("GetImageCustomData", 0, "metadata")}

RunServicePipeline ==
  /\ pc = "RunServicePipeline"
  /\ \/ \E e \in MetadataErrors :
          /\ result' = e
          /\ pc' = "done"
          /\ UNCHANGED args
     \/ /\ NoProcessInformation(newProcs)
        /\ result' = Error("NoProcess", 0, "precondition")
        /\ pc' = "done"
        /\ UNCHANGED args
     \/ /\ ~NoProcessInformation(newProcs)
        /\ args' = [newImageSpec |-> [p \in newProcs |-> NewSpecState(updateSpec, p)],
                    currentImageSpec |-> [p \in curProcs |-> ZeroState]]
        /\ pc' = Stages[1]
        /\ UNCHANGED result
  /\ UNCHANGED <<inputs, services, imageHistory, toDeployProcesses, deployedProcesses, err,
                 rollbackQueue, removeQueue, log, errLog, rollbacks, compensated>>


\* --------------------------------------------------- the pipeline driver
\* action.Pipeline.Execute when the Forward of stage returned the error e:
\* run the Backward of update-services if it completed, then return e
ExecuteFailure(stage, e) ==
  IF "updateServices" \in ExecuteBackward(stage)
    THEN /\ pc' = "rollback"
         /\ rollbackQueue' = deployedProcesses
         /\ rollbacks' = Append(rollbacks, [by |-> "Backward", processes |-> deployedProcesses])
         /\ UNCHANGED result
    ELSE /\ pc' = "done"
         /\ result' = e
         /\ UNCHANGED <<rollbackQueue, rollbacks>>

\* -------------------------------------------------------- update-services
\* lines 159-162: collect the names of the new spec in map order, then sort
UpdateServicesSort ==
  /\ pc = "updateServices"
  /\ \E order \in MapOrders(DOMAIN args.newImageSpec) :
       toDeployProcesses' = SortStrings(order)
  /\ deployedProcesses' = <<>>
  /\ pc' = "deploy"
  /\ UNCHANGED <<inputs, args, services, imageHistory, err, rollbackQueue, removeQueue,
                 result, log, errLog, rollbacks, compensated>>

OwnRollbackAll(toDeploy, deployed) == toDeploy

\* line 171: what Forward hands to rollbackAddedProcesses when a deploy failed
OwnRollbackProcesses(toDeploy, deployed) == deployed

DeployFailedNever(e) == FALSE

\* lines 165-167: the deploy loop stops at the first error
DeployFailed(e) == e # NoErr

\* lines 163-173: one turn of the deploy loop
UpdateServicesDeploy ==
  /\ pc = "deploy"
  /\ Len(deployedProcesses) < Len(toDeployProcesses)
  /\ LET processName == toDeployProcesses[Len(deployedProcesses) + 1] IN
     \E fault \in Faults :
       LET out == deployService(services, processName, NewImg,
                                args.newImageSpec[processName], "forward", fault) IN
       /\ fault # "none" => Injected(out, fault)
       /\ services' = out.services
       /\ log' = log \o out.calls
       /\ IF ~DeployFailed(out.err)
            THEN /\ deployedProcesses' = Append(deployedProcesses, processName)
                 /\ UNCHANGED <<err, pc, rollbackQueue, rollbacks>>
            ELSE /\ err' = out.err
                 /\ pc' = "rollback"
                 /\ rollbackQueue' = OwnRollbackProcesses(toDeployProcesses, deployedProcesses)
                 /\ rollbacks' = Append(rollbacks,
                      [by |-> "Forward",
                       processes |-> OwnRollbackProcesses(toDeployProcesses, deployedProcesses)])
                 /\ UNCHANGED deployedProcesses
  /\ UNCHANGED <<inputs, args, imageHistory, toDeployProcesses, removeQueue, result,
                 errLog, compensated>>

\* line 174: every process deployed; Execute goes on to the next stage
UpdateServicesReturn ==
  /\ pc = "deploy"
  /\ Len(deployedProcesses) = Len(toDeployProcesses)
  /\ pc' = ExecuteNext("updateServices")
  /\ UNCHANGED <<inputs, args, services, imageHistory, toDeployProcesses, deployedProcesses,
                 err, rollbackQueue, removeQueue, result, log, errLog, rollbacks,
                 compensated>>

\* ---------------------------------------------------------- compensation
\* lines 88-92: how rollbackAddedProcesses undoes the deploy of one process
RollbackRedeploys(spec, p) == p \in DOMAIN spec

RollbackRestStopsOnError(queue, e) == IF e = NoErr THEN Tail(queue) ELSE <<>>

\* lines 93-95: an error is logged and the loop goes on with the next name
RollbackRest(queue, e) == Tail(queue)

\* lines 86-96: one turn of the loop of rollbackAddedProcesses
RollbackAddedProcess ==
  /\ pc = "rollback"
  /\ rollbackQueue # <<>>
  /\ LET processName == Head(rollbackQueue) IN
     /\ compensated' = Append(compensated, processName)
     /\ IF RollbackRedeploys(args.currentImageSpec, processName)
          THEN \E fault \in Faults :
                 LET out == deployService(services, processName, CurImg,
                                          args.currentImageSpec[processName],
                                          "rollback", fault) IN
                 /\ fault # "none" => Injected(out, fault)
                 /\ services' = out.services
                 /\ log' = log \o out.calls
                 /\ errLog' = IF out.err = NoErr THEN errLog ELSE Append(errLog, out.err)
                 /\ rollbackQueue' = RollbackRest(rollbackQueue, out.err)
          ELSE \E ok \in BOOLEAN :
                 /\ services' = IF ok THEN [services EXCEPT ![processName] = NoService]
                                ELSE services
                 /\ log' = Append(log, Call("RemoveService", processName, "rollback", ok))
                 /\ errLog' = IF ok THEN errLog
                              ELSE Append(errLog, Error("RemoveService", processName, "rollback"))
                 /\ rollbackQueue' =
                      RollbackRest(rollbackQueue,
                                   IF ok THEN NoErr
                                   ELSE Error("RemoveService", processName, "rollback"))
  /\ UNCHANGED <<inputs, args, imageHistory, pc, toDeployProcesses, deployedProcesses, err,
                 removeQueue, result, rollbacks>>

ReturnLastLogged(e, logged) == IF logged = <<>> THEN e ELSE logged[Len(logged)]

\* the error a failed run hands back: the one of the failing forward step
\* (the err of rollbackAddedProcesses is local to its loop, line 87)
ReturnedError(e, logged) == e

\* line 172: Forward returns the error once its own rollback is over
UpdateServicesFail ==
  /\ pc = "rollback"
  /\ rollbackQueue = <<>>
  /\ rollbacks[Len(rollbacks)].by = "Forward"
  /\ ExecuteFailure("updateServices", ReturnedError(err, errLog))
  /\ UNCHANGED <<inputs, args, services, imageHistory, toDeployProcesses, deployedProcesses,
                 err, removeQueue, log, errLog, compensated>>

\* line 180: Backward is over; Execute returns the error of the failed stage
UpdateServicesBackwardReturn ==
  /\ pc = "rollback"
  /\ rollbackQueue = <<>>
  /\ rollbacks[Len(rollbacks)].by = "Backward"
  /\ result' = ReturnedError(err, errLog)
  /\ pc' = "done"
  /\ UNCHANGED <<inputs, args, services, imageHistory, toDeployProcesses, deployedProcesses,
                 err, rollbackQueue, removeQueue, log, errLog, rollbacks, compensated>>

\* ----------------------------------------------------- update-image-in-db
AppendFailureIgnored(ok) == FALSE

\* lines 188-190: whether Forward of update-image-in-db returns an error
AppendFailed(ok) == ~ok

UpdateImageInDB ==
  /\ pc = "updateImageInDB"
  /\ \E ok \in BOOLEAN :
       /\ imageHistory' = IF ok THEN Append(imageHistory, NewImg) ELSE imageHistory
       /\ log' = Append(log, Call("AppendAppImageName", 0, "forward", ok))
       /\ IF AppendFailed(ok)
            THEN /\ err' = Error("AppendAppImageName", 0, "forward")
                 /\ ExecuteFailure("updateImageInDB", Error("AppendAppImageName", 0, "forward"))
            ELSE /\ pc' = ExecuteNext("updateImageInDB")
                 /\ UNCHANGED <<err, rollbackQueue, rollbacks, result>>
  /\ UNCHANGED <<inputs, args, services, toDeployProcesses, deployedProcesses, removeQueue,
                 errLog, compensated>>

\* ---------------------------------------------------- remove-old-services
FromMap(spec) == DOMAIN spec

Difference(old, new) == old \ new

RemovedNamesSwapped(cur, new) == Difference(FromMap(new), FromMap(cur))

\* lines 199-201: old.Difference(new)
RemovedNames(cur, new) == Difference(FromMap(cur), FromMap(new))

\* lines 199-201: the names Stage C visits
RemoveOldServicesBegin ==
  /\ pc = "removeOldServices"
  /\ removeQueue' = RemovedNames(args.currentImageSpec, args.newImageSpec)
  /\ pc' = "removing"
  /\ UNCHANGED <<inputs, args, services, imageHistory, toDeployProcesses, deployedProcesses,
                 err, rollbackQueue, result, log, errLog, rollbacks, compensated>>

RemovalAbortsOnError(ok) == ~ok

\* lines 203-205: a failed removal is logged, never returned by Forward
RemovalAborts(ok) == FALSE

\* lines 201-206: one turn of the removal loop, in any order
RemoveOldService ==
  /\ pc = "removing"
  /\ \E processName \in removeQueue, ok \in BOOLEAN :
       /\ removeQueue' = removeQueue \ {processName}
       /\ services' = IF ok THEN [services EXCEPT ![processName] = NoService] ELSE services
       /\ log' = Append(log, Call("RemoveService", processName, "remove", ok))
       /\ errLog' = IF ok THEN errLog
                    ELSE Append(errLog, Error("RemoveService", processName, "remove"))
       /\ IF RemovalAborts(ok)
            THEN /\ err' = Error("RemoveService", processName, "remove")
                 /\ ExecuteFailure("removeOldServices",
                                   Error("RemoveService", processName, "remove"))
            ELSE UNCHANGED <<pc, err, rollbackQueue, result, rollbacks>>
  /\ UNCHANGED <<inputs, args, imageHistory, toDeployProcesses, deployedProcesses,
                 compensated>>

\* line 207: Stage C never fails; Execute returns nil after the last stage
RemoveOldServicesReturn ==
  /\ pc = "removing"
  /\ removeQueue = {}
  /\ pc' = ExecuteNext("removeOldServices")
  /\ result' = NoErr
  /\ UNCHANGED <<inputs, args, services, imageHistory, toDeployProcesses, deployedProcesses,
                 err, rollbackQueue, removeQueue, log, errLog, rollbacks, compensated>>

Next ==
  \/ RunServicePipeline
  \/ UpdateServicesSort
  \/ UpdateServicesDeploy
  \/ UpdateServicesReturn
  \/ RollbackAddedProcess
  \/ UpdateServicesFail
  \/ UpdateServicesBackwardReturn
  \/ UpdateImageInDB
  \/ RemoveOldServicesBegin
  \/ RemoveOldService
  \/ RemoveOldServicesReturn

Spec == Init /\ [][Next]_vars

TypeOK ==
  /\ pc \in {"RunServicePipeline", "updateServices", "deploy", "rollback", "updateImageInDB",
             "removeOldServices", "removing", "done", "deployService"}
  /\ (result = Nil) <=> (pc # "done")


\* ------------------------------------------------- the deploy step alone
\* deployService applied to one process, for every previous labels (or
\* none), every requested ProcessState and either image; a second call reads
\* what the first one wrote.
MaxCalls == 2

TheProc == 1

InitDeploy ==
  /\ curProcs = {}
  /\ newProcs = {}
  /\ updateSpec = NilSpec
  /\ services \in {s \in [Procs -> {NoService} \cup {RunningService(CurImg, l) : l \in LabelSet}] :
                     \A p \in Procs \ {TheProc} : ~s[p].exists}
  /\ preServices = services
  /\ args = NoArgs
  /\ imageHistory = <<CurImg>>
  /\ pc = "deployService"
  /\ toDeployProcesses = <<>>
  /\ deployedProcesses = <<>>
  /\ err = NoErr
  /\ rollbackQueue = <<>>
  /\ removeQueue = {}
  /\ result = Nil
  /\ log = <<>>
  /\ errLog = <<>>
  /\ rollbacks = <<>>
  /\ compensated = <<>>
  /\ request \in [state : ProcessState, image : {CurImg, NewImg}, times : {0}]

DeployServiceCall ==
  /\ pc = "deployService"
  /\ request.times < MaxCalls
  /\ \E fault \in Faults :
       LET out == deployService(services, TheProc, request.image, request.state,
                                "forward", fault) IN
       /\ fault # "none" => Injected(out, fault)
       /\ services' = out.services
       /\ log' = log \o out.calls
       /\ err' = out.err
  /\ request' = [request EXCEPT !.times = @ + 1]
  /\ UNCHANGED <<curProcs, newProcs, updateSpec, preServices, args, imageHistory, pc,
                 toDeployProcesses, deployedProcesses, rollbackQueue, removeQueue, result,
                 errLog, rollbacks, compensated>>

NextDeploy == DeployServiceCall

SpecDeploy == InitDeploy /\ [][NextDeploy]_vars


\* ================================================================= claims
IsSorted(s) == \A i, j \in 1..Len(s) : i < j => s[i] < s[j]

IsPrefix(s, t) == Len(s) <= Len(t) /\ \A i \in 1..Len(s) : s[i] = t[i]

CallsOf(phase) == SelectSeq(log, LAMBDA c : c.phase = phase)

\* Stage A failed by itself: its Forward called rollbackAddedProcesses
StageAFailed == rollbacks # <<>> /\ rollbacks[1].by = "Forward"

\* C1: when the deploy of p(k+1) fails in Stage A after p1..pk were deployed
\* in sorted order, rollbackAddedProcesses is invoked once, for exactly
\* p1..pk in that order, and every backend call issued after the failure is
\* for one of p1..pk: none for p(k+1) or a process sorting after it.
C1_RollbackExactlyDeployedPrefix ==
  StageAFailed =>
    LET k == Len(deployedProcesses) IN
    /\ IsSorted(toDeployProcesses)
    /\ k < Len(toDeployProcesses)
    /\ deployedProcesses = SubSeq(toDeployProcesses, 1, k)
    /\ err.phase = "forward" /\ err.proc = toDeployProcesses[k + 1]
    /\ Len(rollbacks) = 1
    /\ rollbacks[1].processes = deployedProcesses
    /\ IsPrefix(compensated, deployedProcesses)
    /\ compensated \o rollbackQueue = deployedProcesses
    /\ pc = "done" => compensated = deployedProcesses
    /\ \A i \in 1..Len(log) :
         /\ log[i].phase = "forward" => log[i].proc \in Range(SubSeq(toDeployProcesses, 1, k + 1))
         /\ log[i].phase # "forward" =>
              /\ log[i].phase = "rollback"
              /\ log[i].proc \in Range(compensated)
              /\ \A j \in (k + 1)..Len(toDeployProcesses) : log[i].proc # toDeployProcesses[j]

\* a run whose deploy of the third process failed after two were deployed
C1_Witness ==
  /\ pc = "done"
  /\ StageAFailed
  /\ Len(toDeployProcesses) = 3
  /\ Len(deployedProcesses) = 2
  /\ compensated = deployedProcesses

RollbackCall(op, p, ok) == \E i \in 1..Len(log) : log[i] = Call(op, p, "rollback", ok)

SameLabels(l, m) ==
  /\ l.replicas = m.replicas
  /\ l.stopped = m.stopped
  /\ l.asleep = m.asleep
  /\ l.restarts = m.restarts

\* C2: a compensated process of the current spec is redeployed with the
\* current image and with exactly the labels CurrentLabels returned for it
\* before the run; a compensated process that is only in the new spec gets
\* RemoveService and never DeployService.
C2_CompensationRestoresLabels ==
  \A p \in Range(compensated) :
    IF p \in curProcs
      THEN RollbackCall("DeployService", p, TRUE) =>
             /\ services[p].image = CurImg
             /\ SameLabels(services[p].labels, preServices[p].labels)
      ELSE /\ \E ok \in BOOLEAN : RollbackCall("RemoveService", p, ok)
           /\ \A ok \in BOOLEAN : ~RollbackCall("DeployService", p, ok)

\* C3: a run that returned an error, with no compensation error logged,
\* leaves the backend as it was before the run.
C3_FailedRunRestoresBackend ==
  (pc = "done" /\ result # NoErr /\ errLog = <<>>) =>
    /\ \A p \in curProcs : services[p] = preServices[p]
    /\ \A p \in Procs \ curProcs : ~services[p].exists
    /\ \A p \in Procs : services[p].exists => services[p].image # NewImg

AppendFailedInLog ==
  \E i \in 1..Len(log) : log[i] = Call("AppendAppImageName", 0, "forward", FALSE)

\* C4: when Stage A deployed every process and AppendAppImageName failed,
\* the run returns that error, the Backward of update-services visits every
\* process Stage A deployed, and remove-old-services never runs.
C4_StageBFailureCompensatesStageA ==
  AppendFailedInLog =>
    /\ deployedProcesses = toDeployProcesses
    /\ Range(deployedProcesses) = newProcs
    /\ pc \in {"rollback", "done"}
    /\ rollbacks = <<[by |-> "Backward", processes |-> deployedProcesses]>>
    /\ compensated \o rollbackQueue = deployedProcesses
    /\ CallsOf("remove") = <<>>
    /\ removeQueue = {}
    /\ imageHistory = <<CurImg>>
    /\ pc = "done" =>
         /\ result = Error("AppendAppImageName", 0, "forward")
         /\ compensated = deployedProcesses

C4_Witness ==
  /\ pc = "done"
  /\ AppendFailedInLog
  /\ Len(compensated) >= 2
  /\ curProcs \ newProcs # {}

\* C5: a failed run returns one error, the one of the forward step that
\* failed (the last forward call, the only one to fail); it is never an
\* error of a compensating call or of a Stage C removal.
C5_ReturnsRootCause ==
  (pc = "done" /\ result # NoErr) =>
    /\ result.phase \in {"metadata", "precondition", "forward"}
    /\ \A i \in 1..Len(errLog) : errLog[i] # result
    /\ result.phase = "forward" =>
         LET fw == CallsOf("forward")
             last == fw[Len(fw)]
         IN  /\ fw # <<>>
             /\ \A i \in 1..(Len(fw) - 1) : fw[i].ok
             /\ last.proc = result.proc
             /\ result.kind \in {"CurrentLabels", "DeployService", "AppendAppImageName"} =>
                  last.op = result.kind /\ ~last.ok
             /\ result.kind \in {"InvalidScale", "ServiceLabels"} =>
                  last.op = "CurrentLabels" /\ last.ok
             /\ result = err

\* a failed run in which two compensating calls failed as well
C5_Witness ==
  /\ pc = "done"
  /\ result # NoErr
  /\ Len(errLog) >= 2
  /\ \E i, j \in 1..Len(errLog) : errLog[i].kind # errLog[j].kind

\* C6: with a new image that declares no process (and readable image
\* metadata) the run fails at once with the no-process error: no backend call,
\* no image appended, no stage entered.
C6_NoProcessFailsBeforeAnyCall ==
  (newProcs = {} /\ pc # "RunServicePipeline" /\ pc # "deployService") =>
    /\ pc = "done"
    /\ result \in MetadataErrors \cup {Error("NoProcess", 0, "precondition")}
    /\ log = <<>>
    /\ imageHistory = <<CurImg>>
    /\ services = preServices
    /\ args = NoArgs
    /\ rollbacks = <<>>

C6_Witness ==
  /\ newProcs = {}
  /\ curProcs # {}
  /\ pc = "done"
  /\ result = Error("NoProcess", 0, "precondition")


\* the deploy step has been applied once to the backend preServices
FirstCall == pc = "deployService" /\ request.times = 1

PrevReplicas == SeedReplicas(CurrentLabels(preServices, TheProc))

\* C7 as stated: when the previous replica count plus Increment is below
\* zero (and the labels could be read) the deploy step fails with the
\* invalid-scale error and no backend call at all was made for the process.
C7_InvalidScaleWithoutAnyCall ==
  (FirstCall /\ PrevReplicas + request.state.Increment < 0 /\ err.kind # "CurrentLabels") =>
    /\ err = Error("InvalidScale", TheProc, "forward")
    /\ \A i \in 1..Len(log) : log[i].proc # TheProc

\* C7 amended: when the previous replica count plus Increment is below zero,
\* the deploy step makes one backend call for the process, CurrentLabels,
\* and, that read having succeeded, fails with the invalid-scale error; no
\* DeployService call is made and the backend is left unchanged.
C7_InvalidScaleAfterReadOnly ==
  (FirstCall /\ PrevReplicas + request.state.Increment < 0) =>
    /\ services = preServices
    /\ Len(log) = 1
    /\ log[1].op = "CurrentLabels" /\ log[1].proc = TheProc
    /\ IF log[1].ok THEN err = Error("InvalidScale", TheProc, "forward")
                    ELSE err = Error("CurrentLabels", TheProc, "forward")

\* scaling a running process down by more than it has
C7_Witness ==
  /\ FirstCall
  /\ preServices[TheProc].exists
  /\ PrevReplicas > 0
  /\ PrevReplicas + request.state.Increment < 0
  /\ err.kind = "InvalidScale"

Woken == request.state.Start \/ request.state.Restart

\* C8 as stated: Start or Restart on a process with zero previous replicas
\* (or no labels) deploys a label replica count of exactly 1 whatever the
\* Increment.
C8_StartFromZeroGivesOne ==
  (FirstCall /\ Woken /\ PrevReplicas = 0 /\ err = NoErr) =>
    services[TheProc].labels.replicas = 1

\* C8 amended: Start or Restart on a process with zero previous replicas (or
\* no labels) deploys a label replica count of 1 when Increment is 0 and of
\* Increment when it is positive; with a negative Increment nothing is
\* deployed.
C8_StartFromZeroGivesOneOrIncrement ==
  (FirstCall /\ Woken /\ PrevReplicas = 0) =>
    /\ err = NoErr =>
         /\ request.state.Increment >= 0
         /\ services[TheProc].labels.replicas =
              (IF request.state.Increment = 0 THEN 1 ELSE request.state.Increment)
    /\ request.state.Increment < 0 => err # NoErr /\ services = preServices

C8_Witness ==
  /\ FirstCall
  /\ request.state.Start
  /\ preServices[TheProc].exists
  /\ PrevReplicas = 0
  /\ request.state.Increment = MaxIncrement
  /\ err = NoErr
  /\ services[TheProc].labels.replicas = MaxIncrement

\* Stage A deployed p and nothing has touched its service since
StageADeployed(p) ==
  /\ rollbacks = <<>>
  /\ \E i \in 1..Len(log) : log[i] = Call("DeployService", p, "forward", TRUE)

StoppedBefore(p) ==
  /\ p \in curProcs
  /\ preServices[p].labels.stopped
  /\ preServices[p].labels.replicas > 0

KeptStopped(p) ==
  /\ services[p].realReplicas = 0
  /\ services[p].labels.stopped
  /\ services[p].labels.replicas = preServices[p].labels.replicas

\* C9 as stated: a process stopped before the run, for which the caller
\* gives no override (no updateSpec, or none for this process), is deployed
\* by Stage A with realReplicas 0, the stopped marker and its previous
\* replica count.
C9_StoppedStaysStoppedWithoutOverride ==
  \A p \in Procs :
    (StageADeployed(p) /\ StoppedBefore(p)
       /\ (updateSpec.nil \/ p \notin DOMAIN updateSpec.map)) => KeptStopped(p)

\* C9 amended: a process stopped before the run is deployed by Stage A with
\* realReplicas 0, the stopped marker and its previous replica count when
\* the caller's updateSpec is non-nil and has no entry for it; when
\* updateSpec is nil the process is deployed started: realReplicas equal to
\* its previous replica count and no stopped marker.
C9_StoppedStaysStoppedUnderEmptyOverride ==
  \A p \in Procs :
    (StageADeployed(p) /\ StoppedBefore(p)) =>
      /\ (~updateSpec.nil /\ p \notin DOMAIN updateSpec.map) =>
           KeptStopped(p) /\ services[p].image = NewImg
      /\ updateSpec.nil =>
           /\ services[p].realReplicas = preServices[p].labels.replicas
           /\ ~services[p].labels.stopped
           /\ services[p].labels.replicas = preServices[p].labels.replicas

C9_Witness ==
  \E p \in Procs :
    /\ StageADeployed(p)
    /\ StoppedBefore(p)
    /\ ~updateSpec.nil
    /\ p \notin DOMAIN updateSpec.map
    /\ KeptStopped(p)

\* the new spec has been built and handed to the pipeline
SpecBuilt ==
  \/ pc \in {"updateServices", "deploy", "rollback", "updateImageInDB", "removeOldServices",
             "removing"}
  \/ pc = "done" /\ result.phase \notin {"metadata", "precondition"}

\* C10 as stated: every declared process gets Start: true unless updateSpec
\* has an entry for it, which then replaces the default; so also with a
\* non-nil updateSpec that has no entry for the process.
C10_DefaultStartUnlessOverridden ==
  SpecBuilt =>
    /\ DOMAIN args.newImageSpec = newProcs
    /\ \A p \in newProcs :
         args.newImageSpec[p] =
           (IF ~updateSpec.nil /\ p \in DOMAIN updateSpec.map
              THEN updateSpec.map[p] ELSE StartState)

\* C10 amended: every declared process gets Start: true when updateSpec is
\* nil; when updateSpec is non-nil every declared process gets its entry of
\* updateSpec, and the zero ProcessState (not Start: true) if it has none.
C10_DefaultStartOnlyWithoutUpdateSpec ==
  SpecBuilt =>
    /\ DOMAIN args.newImageSpec = newProcs
    /\ \A p \in newProcs :
         /\ updateSpec.nil => args.newImageSpec[p] = StartState
         /\ (~updateSpec.nil /\ p \in DOMAIN updateSpec.map) =>
              args.newImageSpec[p] = updateSpec.map[p]
         /\ (~updateSpec.nil /\ p \notin DOMAIN updateSpec.map) =>
              /\ args.newImageSpec[p] = ZeroState
              /\ ~args.newImageSpec[p].Start

C10_Witness ==
  /\ SpecBuilt
  /\ ~updateSpec.nil
  /\ \E p, q \in newProcs :
       /\ p \in DOMAIN updateSpec.map
       /\ q \notin DOMAIN updateSpec.map
       /\ args.newImageSpec[q] = ZeroState
       /\ args.newImageSpec[p] = updateSpec.map[p]

\* the names for which Stage C called RemoveService, in call order
RemovalsRequested ==
  [i \in 1..Len(CallsOf("remove")) |-> CallsOf("remove")[i].proc]

NoDuplicates(s) == \A i, j \in 1..Len(s) : i # j => s[i] # s[j]

\* C11: Stage C calls RemoveService for exactly the names that are keys of
\* the current spec and not of the new spec, each once and never for a
\* process of the new spec; a removal that fails does not fail the run.
C11_StageCRemovesExactlyTheDifference ==
  /\ NoDuplicates(RemovalsRequested)
  /\ Range(RemovalsRequested) \subseteq curProcs \ newProcs
  /\ Range(RemovalsRequested) \cap newProcs = {}
  /\ \A i \in 1..Len(log) : log[i].phase = "remove" => log[i].op = "RemoveService"
  /\ pc = "removing" => Range(RemovalsRequested) \cup removeQueue = curProcs \ newProcs
  /\ (pc = "done" /\ result = NoErr) => Range(RemovalsRequested) = curProcs \ newProcs
  /\ (pc = "done" /\ CallsOf("remove") # <<>>) => result = NoErr

\* a run that succeeded although one of its two removals failed
C11_Witness ==
  /\ pc = "done"
  /\ result = NoErr
  /\ Cardinality(curProcs \ newProcs) = 2
  /\ curProcs \cap newProcs # {}
  /\ \E i, j \in 1..Len(log) :
       /\ log[i].phase = "remove" /\ ~log[i].ok
       /\ log[j].phase = "remove" /\ log[j].ok

ForwardDeploys(p) ==
  SelectSeq(log, LAMBDA c : c = Call("DeployService", p, "forward", TRUE))

Succeeded == pc = "done" /\ result = NoErr

\* C12: in a run that returns success each process of the new spec was
\* deployed exactly once, with the new image; the new image was appended to
\* the image history; RemoveService was requested for every process of the
\* current spec that the new spec drops; no compensating call was issued.
C12_SuccessfulRunDeploysAppendsRemoves ==
  Succeeded =>
    /\ \A p \in newProcs :
         /\ Len(ForwardDeploys(p)) = 1
         /\ services[p].exists
         /\ services[p].image = NewImg
    /\ \A i \in 1..Len(log) :
         log[i].op = "DeployService" => log[i].ok /\ log[i].proc \in newProcs
    /\ imageHistory = <<CurImg, NewImg>>
    /\ \A p \in curProcs \ newProcs :
         \E ok \in BOOLEAN, i \in 1..Len(log) : log[i] = Call("RemoveService", p, "remove", ok)
    /\ CallsOf("rollback") = <<>>
    /\ rollbacks = <<>>
    /\ compensated = <<>>

\* the current image declares two processes, the new one keeps one of them
\* and drops the other
C12_Witness ==
  /\ Succeeded
  /\ Cardinality(curProcs) = 2
  /\ Cardinality(newProcs) = 1
  /\ newProcs \subseteq curProcs
  /\ \A p \in curProcs \ newProcs : ~services[p].exists

AppendOkAt(i) == log[i] = Call("AppendAppImageName", 0, "forward", TRUE)

\* C13: the stages run in the order update-services, update-image-in-db,
\* remove-old-services: AppendAppImageName is called only after every
\* process of the new spec was deployed successfully, no deploy of Stage A
\* follows it, and no RemoveService of Stage C is issued before
\* AppendAppImageName has succeeded.
C13_StagesRunInOrder ==
  \A i \in 1..Len(log) :
    /\ log[i].op = "AppendAppImageName" =>
         /\ \A p \in newProcs :
              \E j \in 1..(i - 1) : log[j] = Call("DeployService", p, "forward", TRUE)
         /\ \A j \in 1..(i - 1) : log[j].phase = "forward" /\ log[j].ok
         /\ \A j \in (i + 1)..Len(log) : log[j].phase # "forward"
         /\ deployedProcesses = toDeployProcesses
    /\ log[i].phase = "remove" =>
         /\ \E j \in 1..(i - 1) : AppendOkAt(j)
         /\ imageHistory = <<CurImg, NewImg>>

\* all three stages have acted: two deploys, the append, a removal
C13_Witness ==
  /\ Cardinality(newProcs) = 2
  /\ \E i \in 1..Len(log) : AppendOkAt(i)
  /\ \E i \in 1..Len(log) : log[i].phase = "remove"

\* C14: Stage A issues its deploy calls one process at a time in the order
\* of the process names: a call for q is made only after the deploy of every
\* p < q of the new spec has succeeded, and nothing is called for p again
\* once a call for q was made, whatever order the map was ranged over.
C14_DeploysInSortedOrder ==
  /\ pc \in {"deploy", "rollback", "updateImageInDB", "removeOldServices", "removing"} =>
       /\ IsSorted(toDeployProcesses)
       /\ Range(toDeployProcesses) = newProcs
       /\ Len(toDeployProcesses) = Cardinality(newProcs)
  /\ \A j \in 1..Len(log) :
       log[j].phase = "forward" /\ log[j].op # "AppendAppImageName" =>
         /\ \A p \in newProcs :
              p < log[j].proc =>
                \E i \in 1..(j - 1) : log[i] = Call("DeployService", p, "forward", TRUE)
         /\ \A i \in 1..(j - 1) :
              log[i].phase = "forward" /\ log[i].op # "AppendAppImageName" =>
                log[i].proc <= log[j].proc

\* three processes deployed, the last one after the two before it
C14_Witness ==
  /\ Cardinality(newProcs) = 3
  /\ deployedProcesses = toDeployProcesses
  /\ Len(deployedProcesses) = 3
  /\ pc = "deploy"

AllDeployed ==
  \A p \in newProcs :
    \E i \in 1..Len(log) : log[i] = Call("DeployService", p, "forward", TRUE)

Appended == \E i \in 1..Len(log) : AppendOkAt(i)

\* C15: a run with a non-empty new spec returns success exactly when every
\* deploy of Stage A and the append of Stage B succeeded, whatever the
\* removals of Stage C did; and the image is appended to the history exactly
\* in the runs that return success.
C15_SuccessIffStagesAAndBSucceed ==
  (pc = "done" /\ newProcs # {}) =>
    /\ (result = NoErr) <=> (AllDeployed /\ Appended)
    /\ (result = NoErr) <=> (imageHistory = <<CurImg, NewImg>>)
    /\ (result # NoErr) <=> (imageHistory = <<CurImg>>)
    /\ (\E i \in 1..Len(errLog) : errLog[i].phase = "remove") => result = NoErr

\* a successful run in which every removal of Stage C failed
C15_Witness ==
  /\ pc = "done"
  /\ result = NoErr
  /\ Cardinality(curProcs \ newProcs) = 2
  /\ Len(errLog) = 2
  /\ \A p \in curProcs \ newProcs : services[p].exists

CompensationAttempted(p) ==
  \E i \in 1..Len(log) :
    /\ log[i].phase = "rollback"
    /\ log[i].proc = p
    /\ log[i].op \in {"CurrentLabels", "RemoveService"}

RollbackErrors == SelectSeq(errLog, LAMBDA e : e.phase = "rollback")

\* C16: rollbackAddedProcesses goes on after a failed compensation: while
\* it runs, the names visited and the names still to visit make up the list
\* it was given, however many visits failed; when it is over every name of
\* that list had its compensating call attempted, and each failure was
\* logged, not returned.
C16_CompensationIsBestEffort ==
  rollbacks # <<>> =>
    /\ compensated \o rollbackQueue = rollbacks[1].processes
    /\ \A p \in Range(compensated) : CompensationAttempted(p)
    /\ Len(RollbackErrors) <= Len(compensated)
    /\ \A i \in 1..Len(RollbackErrors) : RollbackErrors[i].proc \in Range(compensated)
    /\ pc = "done" =>
         /\ compensated = rollbacks[1].processes
         /\ \A p \in Range(rollbacks[1].processes) : CompensationAttempted(p)

\* the compensation of the first of three processes failed and the two
\* after it were still visited; the last one failed as well
C16_Witness ==
  /\ pc = "done"
  /\ Len(compensated) = 3
  /\ Len(RollbackErrors) = 2
  /\ RollbackErrors[1].proc = compensated[1]
  /\ RollbackErrors[2].proc = compensated[3]
  /\ RollbackErrors[1].kind # RollbackErrors[2].kind

PrevStopped == SeedStopped(CurrentLabels(preServices, TheProc))

PrevAsleep == SeedAsleep(CurrentLabels(preServices, TheProc))

\* the process is stopped: it was and is not woken, or Stop is requested
StoppedNow == (PrevStopped /\ ~Woken) \/ request.state.Stop

AsleepNow == (PrevAsleep /\ ~Woken) \/ request.state.Sleep

DesiredReplicas ==
  IF Woken /\ PrevReplicas + request.state.Increment = 0
    THEN 1 ELSE PrevReplicas + request.state.Increment

\* C17: in the DeployService call of the deploy step, a stopped process
\* (stopped before and not woken by Start/Restart, or Stop requested) gets
\* replicas 0, the stopped marker, and labels that still hold the desired
\* count; any other process gets replicas equal to the label count and no
\* stopped marker.  The asleep marker is set exactly when the process was
\* asleep and is not woken, or Sleep is requested; it has no effect on the
\* replicas argument.
C17_StoppedAndAsleepMarkers ==
  (FirstCall /\ err = NoErr) =>
    LET svc == services[TheProc] IN
    /\ svc.image = request.image
    /\ svc.labels.replicas = DesiredReplicas
    /\ svc.labels.stopped = StoppedNow
    /\ svc.labels.asleep = AsleepNow
    /\ StoppedNow => svc.realReplicas = 0
    /\ ~StoppedNow => svc.realReplicas = svc.labels.replicas

\* both markers set on one deploy, the desired count kept in the labels
C17_Witness ==
  /\ FirstCall
  /\ err = NoErr
  /\ StoppedNow
  /\ AsleepNow
  /\ services[TheProc].labels.stopped
  /\ services[TheProc].labels.asleep
  /\ services[TheProc].labels.replicas = MaxReplicas
  /\ services[TheProc].realReplicas = 0

\* a call of the deploy step that follows a successful one, with the same
\* process, image and ProcessState
RepeatedCall ==
  /\ pc = "deployService"
  /\ request.times >= 1
  /\ err = NoErr
  /\ request'.times = request.times + 1

\* C18 as stated: for any previous labels and any ProcessState, a second
\* deployService call with the same arguments leaves the backend as the
\* first one left it.
C18_DeployIsIdempotent ==
  [][RepeatedCall => services' = services]_vars

\* C18 amended: a second deployService call with the same arguments leaves
\* the backend as the first one left it when the ProcessState has Increment
\* 0 and no Restart; a positive Increment is added to the label replica
\* count again by every successful call, and Restart adds one to the restart
\* count again.
C18_DeployIsIdempotentWithoutDelta ==
  [][RepeatedCall =>
       /\ (request.state.Increment = 0 /\ ~request.state.Restart) => services' = services
       /\ (request.state.Increment > 0 /\ err' = NoErr) =>
            services'[TheProc].labels.replicas =
              services[TheProc].labels.replicas + request.state.Increment
       /\ (request.state.Restart /\ err' = NoErr) =>
            services'[TheProc].labels.restarts = services[TheProc].labels.restarts + 1]_vars

\* two successful calls that start a stopped process, without Increment or
\* Restart
C18_Witness ==
  /\ pc = "deployService"
  /\ request.times = 2
  /\ Len(log) = 4
  /\ \A i \in 1..Len(log) : log[i].ok
  /\ request.state.Start
  /\ request.state.Increment = 0
  /\ ~request.state.Restart
  /\ PrevStopped
  /\ services # preServices

\* C19: in one run rollbackAddedProcesses is invoked at most once and
\* visits each deployed process at most once: when a deploy of Stage A
\* failed, by Forward only (Execute does not also run the Backward of
\* update-services); when Stage B failed, by that Backward, exactly once.
C19_CompensatedAtMostOnce ==
  /\ Len(rollbacks) <= 1
  /\ NoDuplicates(compensated)
  /\ Range(compensated) \subseteq Range(deployedProcesses)
  /\ \A p \in Procs :
       Len(SelectSeq(log, LAMBDA c : c.phase = "rollback" /\ c.proc = p
                                       /\ c.op \in {"CurrentLabels", "RemoveService"})) <= 1
  /\ pc = "done" =>
       /\ (err.phase = "forward" /\ err.kind # "AppendAppImageName") =>
            /\ Len(rollbacks) = 1
            /\ rollbacks[1].by = "Forward"
       /\ AppendFailedInLog =>
            /\ Len(rollbacks) = 1
            /\ rollbacks[1].by = "Backward"
            /\ compensated = deployedProcesses
       /\ result = NoErr => rollbacks = <<>>

\* a run of each kind is over: here Stage A failed after two deploys and
\* its Forward rolled them back, once
C19_Witness ==
  /\ pc = "done"
  /\ rollbacks # <<>>
  /\ rollbacks[1].by = "Forward"
  /\ Len(compensated) = 2
  /\ Len(CallsOf("rollback")) >= 3

DroppedProcs == curProcs \ newProcs

\* C20: in a run that returns an error the processes of the current spec
\* that the new spec drops are left alone: no backend call is issued for
\* them, their services are as before the run, and the image history is
\* unchanged.  During any run the only calls for such a process are the
\* removals of Stage C.
C20_FailedRunLeavesDroppedProcesses ==
  /\ \A i \in 1..Len(log) :
       log[i].proc \in DroppedProcs => log[i].phase = "remove"
  /\ (pc = "done" /\ result # NoErr) =>
       /\ \A p \in DroppedProcs :
            /\ services[p] = preServices[p]
            /\ \A i \in 1..Len(log) : log[i].proc # p
       /\ imageHistory = <<CurImg>>

\* Stage B failed after two deploys, a compensation failed too, and the
\* process the new image drops was not touched
C20_Witness ==
  /\ pc = "done"
  /\ result # NoErr
  /\ DroppedProcs # {}
  /\ Len(compensated) = 2
  /\ errLog # <<>>
  /\ \E p \in newProcs : services[p] # preServices[p]
  /\ \A p \in DroppedProcs : services[p] = preServices[p] /\ services[p].exists

====
